---- MODULE Spec2Model ----
\* Conflict scanner: the single-page form (sample-app/src/app/page.tsx) and
\* the HTTP endpoints it talks to: /api/search-news, /api/analyze,
\* /api/extract-parties and /api/extract-keywords.
\*
\* Strings are sequences of tokens: a token is a run of characters that the
\* code never splits (a code fence, the word json, a name, a separator).
\* trim, startsWith, slice, join and JSON.parse are computed on the tokens.
\* A value that may be null or undefined is <<>> (None) or <<v>> (Some(v)).
EXTENDS Integers, Sequences, FiniteSets, TLC

\* ------------------------------------------------------------------------
\* Optional values and strings
\* ------------------------------------------------------------------------
None == <<>>
Some(x) == <<x>>
IsSome(o) == o # <<>>
Get(o) == o[1]

\* A one-token string literal.
S(tok) == <<tok>>

IsSpace(tok) == tok \in {" ", "\n"}

RECURSIVE TrimStart(_)
TrimStart(s) ==
  IF s # <<>> /\ IsSpace(Head(s)) THEN TrimStart(Tail(s)) ELSE s

RECURSIVE TrimEnd(_)
TrimEnd(s) ==
  IF s # <<>> /\ IsSpace(s[Len(s)]) THEN TrimEnd(SubSeq(s, 1, Len(s) - 1)) ELSE s

\* String.prototype.trim
Trim(s) == TrimEnd(TrimStart(s))

\* Array.prototype.join on an array of strings
RECURSIVE Join(_, _)
Join(parts, sep) ==
  IF parts = <<>> THEN <<>>
  ELSE IF Len(parts) = 1 THEN parts[1]
  ELSE parts[1] \o sep \o Join(Tail(parts), sep)

\* Array.prototype.includes
Includes(arr, x) == \E i \in 1..Len(arr) : arr[i] = x

\* Array.prototype.slice(0, n)
SliceTo(arr, n) == SubSeq(arr, 1, IF Len(arr) < n THEN Len(arr) ELSE n)

\* str.split(',').map(trim).filter(nonempty): the string is cut at every ","
\* token, each piece trimmed, empty pieces dropped.
RECURSIVE SplitComma(_, _)
SplitComma(s, cur) ==
  IF s = <<>> THEN (IF Trim(cur) = <<>> THEN <<>> ELSE <<Trim(cur)>>)
  ELSE IF Head(s) = ","
       THEN (IF Trim(cur) = <<>> THEN <<>> ELSE <<Trim(cur)>>) \o SplitComma(Tail(s), <<>>)
       ELSE SplitComma(Tail(s), Append(cur, Head(s)))

\* ------------------------------------------------------------------------
\* JSON documents a model reply can carry
\* ------------------------------------------------------------------------
JNull == [kind |-> "null"]

Conflict(t, sev) == [title |-> t, severity |-> sev]

Doc1 ==
  [kind |-> "obj", riskLevel |-> "HIGH", summary |-> "s1",
   conflicts |-> Some(<<Conflict(1, "LOW"), Conflict(2, "CRITICAL"),
                        Conflict(3, "unknown"), Conflict(4, "LOW"),
                        Conflict(5, "HIGH")>>),
   recommendations |-> Some(<<"r1", "r2">>)]

Doc2 ==
  [kind |-> "obj", riskLevel |-> "MEDIUM", summary |-> "s2",
   conflicts |-> Some(<<Conflict(1, "MEDIUM"), Conflict(2, "HIGH"),
                        Conflict(3, "MEDIUM")>>),
   recommendations |-> Some(<<>>)]

\* An object without the conflicts and recommendations fields.
Doc3 ==
  [kind |-> "obj", riskLevel |-> "LOW", summary |-> "s3",
   conflicts |-> None, recommendations |-> None]

DocArr == [kind |-> "arr", items |-> <<S("K1"), <<>>, S(" "), S("K2")>>]

DocTokens == {"D1", "D2", "D3", "null", "ARR"}

DocOf(tok) ==
  CASE tok = "D1" -> Doc1
    [] tok = "D2" -> Doc2
    [] tok = "D3" -> Doc3
    [] tok = "ARR" -> DocArr
    [] OTHER -> JNull

\* JSON.parse: leading and trailing whitespace is ignored; the text must be
\* exactly one JSON value.  None stands for the SyntaxError it throws.
JSONParse(s) ==
  LET t == Trim(s)
  IN  IF Len(t) = 1 /\ t[1] \in DocTokens THEN Some(DocOf(t[1])) ELSE None

\* The token of a markdown code fence (three backquotes).
Fence == "FENCE"

\* startsWith / endsWith on the fence tokens
StartsWithFenceJson(s) == Len(s) >= 2 /\ s[1] = Fence /\ s[2] = "json"
StartsWithFence(s) == Len(s) >= 1 /\ s[1] = Fence
EndsWithFence(s) == Len(s) >= 1 /\ s[Len(s)] = Fence

\* "Clean up the response - remove markdown code blocks if present"
StripFences(content) ==
  LET c0 == Trim(content)
      c1 == IF StartsWithFenceJson(c0) THEN SubSeq(c0, 3, Len(c0))
            ELSE IF StartsWithFence(c0) THEN SubSeq(c0, 2, Len(c0))
            ELSE c0
      c2 == IF EndsWithFence(c1) THEN SubSeq(c1, 1, Len(c1) - 1) ELSE c1
  IN  Trim(c2)

\* ------------------------------------------------------------------------
\* HTTP: requests, responses, upstream replies
\* ------------------------------------------------------------------------
\* What a route handler does next: answer, or call its upstream service.
Respond(status, body) == [act |-> "respond", resp |-> [status |-> status, body |-> body]]
CallUpstream(service, payload) == [act |-> "fetch", service |-> service, payload |-> payload]

\* Response.ok
Ok(resp) == resp.status >= 200 /\ resp.status <= 299

\* An incoming request: parsed is FALSE when request.json() / request.formData()
\* throws on the body.
Request(parsed, body) == [parsed |-> parsed, body |-> body]

\* A reply of an upstream service to fetch: net = "reject" when fetch itself
\* throws; json is FALSE when the reply body is not JSON; data is the body.
UpReply(net, status, json, data) == [net |-> net, status |-> status, json |-> json, data |-> data]
UpOk(reply) == reply.status >= 200 /\ reply.status <= 299

\* Articles are told apart by their position in the provider's list.
ArticleList(n) == [i \in 1..n |-> i]

\* ------------------------------------------------------------------------
\* POST /api/search-news
\* ------------------------------------------------------------------------
\* Boolean(x) of an optional string
Truthy(o) == IsSome(o) /\ Get(o) # <<>>

\* As SearchTermsOf, but the two fields are joined without filter(Boolean).
SearchTermsOf_NoFilter(body) ==
  (IF IsSome(body.names) THEN Get(body.names) ELSE <<>>) \o S(" OR ")
  \o (IF IsSome(body.variants) THEN Get(body.variants) ELSE <<>>)

\* [names, variants].filter(Boolean).join(" OR ")
SearchTermsOf(body) ==
  LET parts == SelectSeq(<<body.names, body.variants>>, Truthy)
  IN  Join([i \in 1..Len(parts) |-> Get(parts[i])], S(" OR "))

SearchNewsFailed(details) ==
  Respond(500, [error |-> S("Failed to search news"), details |-> details])

SearchNewsRecv(req, hasKey) ==
  IF ~req.parsed THEN SearchNewsFailed(S("SyntaxError"))
  ELSE IF SearchTermsOf(req.body) = <<>>
       THEN Respond(400, [error |-> S("Please provide at least one search term")])
  ELSE IF ~hasKey
       THEN Respond(500, [error |-> S("NEWS_API_KEY is not configured. Please add it to your .env.local file.")])
  ELSE CallUpstream("newsapi", [q |-> SearchTermsOf(req.body)])

SearchNewsReply(req, reply) ==
  IF reply.net = "reject" THEN SearchNewsFailed(S("TypeError: fetch failed"))
  ELSE IF ~reply.json THEN SearchNewsFailed(S("SyntaxError"))
  ELSE IF ~UpOk(reply)
       THEN SearchNewsFailed(S("Error: ") \o
              (IF Truthy(reply.data.message) THEN Get(reply.data.message)
               ELSE S("Failed to fetch news")))
  ELSE Respond(200,
         [articles |-> IF IsSome(reply.data.articles) THEN Get(reply.data.articles) ELSE <<>>,
          totalResults |-> IF IsSome(reply.data.totalResults) THEN Get(reply.data.totalResults) ELSE 0])

\* ------------------------------------------------------------------------
\* POST /api/analyze
\* ------------------------------------------------------------------------
NoArticlesResult ==
  [kind |-> "obj", riskLevel |-> "LOW",
   summary |-> "No news articles found for the provided search terms.",
   conflicts |-> Some(<<>>),
   recommendations |-> Some(<<"Consider expanding search terms to include more variations",
                              "Check for potential misspellings in the entity names",
                              "Monitor for future news developments">>)]

\* The catch block: a SyntaxError gets its own message, anything else the
\* general one.
AnalyzeParseFailed == Respond(500, [error |-> S("Failed to parse AI analysis response")])
AnalyzeFailed(details) ==
  Respond(500, [error |-> S("Failed to analyze results"), details |-> details])

\* As AnalyzeRecv, but the API key is looked up before the articles.
AnalyzeRecv_KeyFirst(req, hasKey) ==
  IF ~req.parsed THEN AnalyzeParseFailed
  ELSE IF ~hasKey
       THEN Respond(500, [error |-> S("OPENAI_API_KEY is not configured. Please add it to your .env.local file.")])
  ELSE IF ~IsSome(req.body.articles) \/ Get(req.body.articles) = <<>>
       THEN Respond(200, NoArticlesResult)
  ELSE CallUpstream("openai", [searchTerms |-> req.body.searchTerms,
                               articles |-> Get(req.body.articles)])

\* As AnalyzeRecv, but without the early return for a request without
\* articles.
AnalyzeRecv_NoEarlyReturn(req, hasKey) ==
  IF ~req.parsed THEN AnalyzeParseFailed
  ELSE IF ~hasKey
       THEN Respond(500, [error |-> S("OPENAI_API_KEY is not configured. Please add it to your .env.local file.")])
  ELSE CallUpstream("openai", [searchTerms |-> req.body.searchTerms,
                               articles |-> IF IsSome(req.body.articles)
                                            THEN Get(req.body.articles) ELSE <<>>])

AnalyzeRecv(req, hasKey) ==
  IF ~req.parsed THEN AnalyzeParseFailed
  ELSE IF ~IsSome(req.body.articles) \/ Get(req.body.articles) = <<>>
       THEN Respond(200, NoArticlesResult)
  ELSE IF ~hasKey
       THEN Respond(500, [error |-> S("OPENAI_API_KEY is not configured. Please add it to your .env.local file.")])
  ELSE CallUpstream("openai", [searchTerms |-> req.body.searchTerms,
                               articles |-> Get(req.body.articles)])

\* Everything after the upstream fetch except the treatment of the content.
\* parse(content) is the handler's reading of the content: Some(doc) or None
\* for a SyntaxError.
AnalyzeAfterFetch(reply, parse(_)) ==
  IF reply.net = "reject" THEN AnalyzeFailed(S("TypeError: fetch failed"))
  ELSE IF ~reply.json THEN AnalyzeParseFailed
  ELSE IF ~UpOk(reply)
       THEN AnalyzeFailed(S("Error: ") \o
              (IF Truthy(reply.data.message) THEN Get(reply.data.message)
               ELSE S("Failed to analyze with AI")))
  ELSE IF ~reply.data.choices THEN AnalyzeFailed(S("TypeError"))
  ELSE IF ~Truthy(reply.data.content)
       THEN AnalyzeFailed(S("Error: No analysis content returned from AI"))
  ELSE IF IsSome(parse(Get(reply.data.content)))
       THEN Respond(200, Get(parse(Get(reply.data.content))))
  ELSE AnalyzeParseFailed

\* As AnalyzeReply, but an upstream error is passed on with the status the
\* upstream gave, as the extract-parties route does.
AnalyzeReply_UpstreamStatus(req, reply) ==
  IF reply.net = "ok" /\ reply.json /\ ~UpOk(reply)
  THEN Respond(reply.status, [error |-> S("Failed to analyze results")])
  ELSE AnalyzeAfterFetch(reply, JSONParse)

\* sample-app/src/app/api/analyze/route.ts: the content goes to JSON.parse
\* as it came.
AnalyzeReply(req, reply) == AnalyzeAfterFetch(reply, JSONParse)

\* The other analyze route of the repository cleans the content first.
ParseCleaned(content) == JSONParse(StripFences(content))
AnalyzeAltReply(req, reply) == AnalyzeAfterFetch(reply, ParseCleaned)

\* ------------------------------------------------------------------------
\* POST /api/extract-parties
\* ------------------------------------------------------------------------
ExtractPartiesRecv(req) ==
  IF ~req.parsed THEN Respond(500, [error |-> S("Failed to parse body as FormData.")])
  ELSE IF ~IsSome(req.body.file) THEN Respond(400, [error |-> S("No file provided")])
  ELSE CallUpstream("n8n", [data |-> Get(req.body.file)])

\* The terms of the older reply format { output: { person_names, company_names } }
OutputTerms(output) ==
  (IF Truthy(output.person_names) THEN SplitComma(Get(output.person_names), <<>>) ELSE <<>>)
  \o (IF Truthy(output.company_names) THEN SplitComma(Get(output.company_names), <<>>) ELSE <<>>)

PartiesFound(terms) ==
  Respond(200, [success |-> TRUE, count |-> Len(terms), terms |-> terms])

ExtractPartiesReply(req, reply) ==
  IF reply.net = "reject" THEN Respond(500, [error |-> S("fetch failed")])
  ELSE IF ~UpOk(reply)
       THEN Respond(reply.status, [error |-> S("n8n extraction failed: ") \o reply.data.text])
  ELSE IF ~reply.json THEN Respond(500, [error |-> S("Unexpected token in JSON")])
  ELSE IF reply.data.shape = "emptyArray"
       THEN Respond(500, [error |-> S("Cannot read properties of undefined")])
  ELSE IF reply.data.shape = "terms" THEN PartiesFound(reply.data.terms)
  ELSE IF reply.data.shape = "output" THEN PartiesFound(OutputTerms(reply.data.output))
  ELSE Respond(500, [error |-> S("Invalid response format from n8n workflow")])

\* ------------------------------------------------------------------------
\* POST /api/extract-keywords
\* ------------------------------------------------------------------------
ExtractKeywordsFailed(details) ==
  Respond(500, [error |-> S("Failed to extract keywords"), details |-> details])

\* A file is [name, text]: text tells what extractText makes of it: "throws"
\* (the .docx or .pdf parser fails), "short" (fewer than 20 characters) or "ok".
ExtractKeywordsRecv(req, hasKey) ==
  IF ~req.parsed THEN ExtractKeywordsFailed(S("TypeError"))
  ELSE IF ~IsSome(req.body.file) THEN Respond(400, [error |-> S("No file provided")])
  ELSE IF Get(req.body.file).text = "throws"
       THEN ExtractKeywordsFailed(S("Error: Failed to parse .docx file"))
  ELSE IF Get(req.body.file).text = "short"
       THEN Respond(400, [error |-> S("Could not extract readable text from the file. Please try a .docx or .txt file."),
                          keywords |-> <<>>])
  ELSE IF ~hasKey
       THEN Respond(500, [error |-> S("OPENAI_API_KEY is not configured. Please add it to your .env.local file.")])
  ELSE CallUpstream("openai", [text |-> Get(req.body.file).name])

\* keywords.filter((k) => k && k.trim().length > 0)
NonBlank(k) == k # <<>> /\ Trim(k) # <<>>

ExtractKeywordsReply(req, reply) ==
  IF reply.net = "reject" THEN ExtractKeywordsFailed(S("TypeError: fetch failed"))
  ELSE IF ~reply.json THEN Respond(500, [error |-> S("Failed to parse AI response")])
  ELSE IF ~UpOk(reply)
       THEN ExtractKeywordsFailed(S("Error: ") \o
              (IF Truthy(reply.data.message) THEN Get(reply.data.message)
               ELSE S("Failed to extract keywords")))
  ELSE IF ~reply.data.choices THEN ExtractKeywordsFailed(S("TypeError"))
  ELSE IF ~Truthy(reply.data.content)
       THEN ExtractKeywordsFailed(S("Error: No content returned from AI"))
  ELSE IF ~IsSome(ParseCleaned(Get(reply.data.content)))
       THEN Respond(500, [error |-> S("Failed to parse AI response")])
  ELSE IF Get(ParseCleaned(Get(reply.data.content))).kind # "arr"
       THEN ExtractKeywordsFailed(S("TypeError: keywords.filter is not a function"))
  ELSE Respond(200, [keywords |-> SelectSeq(Get(ParseCleaned(Get(reply.data.content))).items, NonBlank),
                     fileName |-> Get(req.body.file).name])

\* ------------------------------------------------------------------------
\* One invocation of a route handler
\* ------------------------------------------------------------------------
Endpoints == {"search-news", "analyze", "analyze-alt", "extract-parties", "extract-keywords"}

HandlerRecv(ep, req, hasKey) ==
  CASE ep = "search-news" -> SearchNewsRecv(req, hasKey)
    [] ep = "analyze" -> AnalyzeRecv(req, hasKey)
    [] ep = "analyze-alt" -> AnalyzeRecv(req, hasKey)
    [] ep = "extract-parties" -> ExtractPartiesRecv(req)
    [] ep = "extract-keywords" -> ExtractKeywordsRecv(req, hasKey)

HandlerReply(ep, req, reply) ==
  CASE ep = "search-news" -> SearchNewsReply(req, reply)
    [] ep = "analyze" -> AnalyzeReply(req, reply)
    [] ep = "analyze-alt" -> AnalyzeAltReply(req, reply)
    [] ep = "extract-parties" -> ExtractPartiesReply(req, reply)
    [] ep = "extract-keywords" -> ExtractKeywordsReply(req, reply)

\* A call of an endpoint, from the fetch that sends it to the response:
\* pc is "sent" (on its way to the handler), "upstream" (the handler awaits
\* its upstream fetch) or "replied" (the response is on its way back).
\* nUp counts the upstream requests the handler has sent for this call and
\* upFail tells whether the upstream fetch threw or was answered not ok.
NoResp == [status |-> 0, body |-> [error |-> <<>>]]

NewCall(ep, req) ==
  [ep |-> ep, req |-> req, pc |-> "sent", resp |-> NoResp, nUp |-> 0, upReq |-> None,
   upFail |-> FALSE]

\* The handler runs from the start to its first await of an upstream fetch,
\* or to its return.
CallRecv(c, hasKey) ==
  LET h == HandlerRecv(c.ep, c.req, hasKey)
  IN  IF h.act = "respond"
      THEN [c EXCEPT !.pc = "replied", !.resp = h.resp]
      ELSE [c EXCEPT !.pc = "upstream", !.nUp = @ + 1, !.upReq = Some(h.payload)]

\* As CallReply, but a handler that sends its upstream request again when
\* the first attempt failed.
CallReply_Retry(c, reply) ==
  IF (reply.net = "reject" \/ ~UpOk(reply)) /\ c.nUp < 2
  THEN [c EXCEPT !.nUp = @ + 1]
  ELSE [c EXCEPT !.pc = "replied", !.resp = HandlerReply(c.ep, c.req, reply).resp,
                 !.upFail = (reply.net = "reject" \/ ~UpOk(reply))]

\* The handler resumes with the upstream reply and runs to its return.
CallReply(c, reply) ==
  [c EXCEPT !.pc = "replied", !.resp = HandlerReply(c.ep, c.req, reply).resp,
            !.upFail = (reply.net = "reject" \/ ~UpOk(reply))]

\* ------------------------------------------------------------------------
\* The upstream services: what they may reply
\* ------------------------------------------------------------------------
\* Longest article list the news provider returns in the model; the report
\* prints TopNews of them.
MaxArticles == 11
TopNews == 10

NoData == [message |-> None]

NewsData(message, articles, total) ==
  [message |-> message, articles |-> articles, totalResults |-> total]

NewsAPIReplies ==
  {UpReply("reject", 0, FALSE, NoData), UpReply("ok", 500, FALSE, NoData),
   UpReply("ok", 200, FALSE, NoData),
   UpReply("ok", 401, TRUE, NewsData(Some(S("apiKeyInvalid")), None, None)),
   UpReply("ok", 429, TRUE, NewsData(None, None, None)),
   UpReply("ok", 200, TRUE, NewsData(None, None, None))}
  \cup {UpReply("ok", 200, TRUE, NewsData(None, Some(ArticleList(n)), Some(n))) :
          n \in {0, 1, MaxArticles}}

OpenAIData(message, choices, content) ==
  [message |-> message, choices |-> choices, content |-> content]

Contents ==
  {S("D1"), S("D2"), S("D3"), S("null"), S("ARR"), S("oops"),
   <<"\n", "D3", "\n">>,
   <<Fence, "json", "\n", "D1", "\n", Fence>>,
   <<Fence, "\n", "D2", "\n", Fence>>,
   <<Fence, "json", "\n", "ARR", "\n", Fence, "\n">>,
   <<Fence, "json", "\n", "D1">>,
   <<Fence, "json", "\n", "oops", "\n", Fence>>}

OpenAIReplies ==
  {UpReply("reject", 0, FALSE, NoData), UpReply("ok", 502, FALSE, NoData),
   UpReply("ok", 200, FALSE, NoData),
   UpReply("ok", 429, TRUE, OpenAIData(Some(S("Rate limit reached")), FALSE, None)),
   UpReply("ok", 500, TRUE, OpenAIData(None, FALSE, None)),
   UpReply("ok", 200, TRUE, OpenAIData(None, FALSE, None)),
   UpReply("ok", 200, TRUE, OpenAIData(None, TRUE, None)),
   UpReply("ok", 200, TRUE, OpenAIData(None, TRUE, Some(<<>>)))}
  \cup {UpReply("ok", 200, TRUE, OpenAIData(None, TRUE, Some(c))) : c \in Contents}

N8nData(text, shape, terms, output) ==
  [text |-> text, shape |-> shape, terms |-> terms, output |-> output]

NoOutput == [person_names |-> None, company_names |-> None]

N8nReplies ==
  {UpReply("reject", 0, FALSE, NoData),
   UpReply("ok", 404, FALSE, N8nData(S("webhook not registered"), "none", <<>>, NoOutput)),
   UpReply("ok", 200, FALSE, N8nData(<<>>, "none", <<>>, NoOutput)),
   UpReply("ok", 200, TRUE, N8nData(<<>>, "emptyArray", <<>>, NoOutput)),
   UpReply("ok", 200, TRUE, N8nData(<<>>, "other", <<>>, NoOutput)),
   UpReply("ok", 200, TRUE, N8nData(<<>>, "output", <<>>,
             [person_names |-> Some(<<"K2", ",", " ", "K1", ",", " ">>),
              company_names |-> Some(<<>>)])),
   UpReply("ok", 200, TRUE, N8nData(<<>>, "output", <<>>,
             [person_names |-> None, company_names |-> Some(<<" ", "K1">>)]))}
  \cup {UpReply("ok", 200, TRUE, N8nData(<<>>, "terms", ts, NoOutput)) :
          ts \in {<<>>, <<S("K1")>>, <<S("K1"), S("K2")>>}}

Replies(ep) ==
  CASE ep = "search-news" -> NewsAPIReplies
    [] ep = "extract-parties" -> N8nReplies
    [] OTHER -> OpenAIReplies

\* ------------------------------------------------------------------------
\* The page: state of ConflictScanner
\* ------------------------------------------------------------------------
VARIABLES
  searchMode,        \* "terms" | "document"
  names,             \* formData.names
  keywords,          \* array of strings
  isLoading,
  isExtracting,
  newsResults,
  analysis,          \* JNull or the JSON value /api/analyze answered
  error,             \* None or Some(message)
  uploadedFileName,  \* None or Some(name)
  currentStep,       \* "idle" | "searching" | "analyzing" | "complete"
  scans,             \* the handleSubmit runs that are suspended at an await
  uploads,           \* the handleFileUpload runs that are suspended at an await
  shown,             \* history: mode and terms submitted by the run that set analysis
  direct,            \* an endpoint call made by another client than the page
  out                \* what the last step did that the state does not keep

vars ==
  <<searchMode, names, keywords, isLoading, isExtracting, newsResults, analysis,
    error, uploadedFileName, currentStep, scans, uploads, shown, direct, out>>

formVars == <<searchMode, names, keywords>>
scanVars == <<isLoading, newsResults, analysis, currentStep, scans, shown>>
uploadVars == <<isExtracting, uploadedFileName, uploads>>

Out(kind, data) == [kind |-> kind, data |-> data]

\* What the user can type into the terms field and the party field.
NameInputs == {<<>>, S(" "), S("A"), S("B")}
KeywordInputs == {<<>>, S(" "), S("K1"), <<" ", "K2", " ">>}
Files == {[name |-> S("contract.docx"), text |-> "ok"]}

Init ==
  /\ searchMode = "terms"
  /\ names = <<>>
  /\ keywords = <<>>
  /\ isLoading = FALSE
  /\ isExtracting = FALSE
  /\ newsResults = <<>>
  /\ analysis = JNull
  /\ error = None
  /\ uploadedFileName = None
  /\ currentStep = "idle"
  /\ scans = <<>>
  /\ uploads = <<>>
  /\ shown = None
  /\ direct = None
  /\ out = Out("init", <<>>)

RemoveAt(seq, i) == SubSeq(seq, 1, i - 1) \o SubSeq(seq, i + 1, Len(seq))

\* ---- form fields ----
setSearchMode(m) ==
  /\ searchMode' = m
  /\ out' = Out("edit", <<>>)
  /\ UNCHANGED <<names, keywords, error, direct>>
  /\ UNCHANGED scanVars
  /\ UNCHANGED uploadVars

\* The terms field is rendered in terms mode only.
SetNames(v) ==
  /\ searchMode = "terms"
  /\ names' = v
  /\ out' = Out("edit", <<>>)
  /\ UNCHANGED <<searchMode, keywords, error, direct>>
  /\ UNCHANGED scanVars
  /\ UNCHANGED uploadVars

\* addKeyword, with the text typed into the party field: the field and the
\* Add button are rendered in document mode only.
addKeyword(typed) ==
  /\ searchMode = "document"
  /\ keywords' = IF Trim(typed) # <<>> /\ ~Includes(keywords, Trim(typed))
                 THEN Append(keywords, Trim(typed))
                 ELSE keywords
  /\ out' = Out("edit", <<>>)
  /\ UNCHANGED <<searchMode, names, error, direct>>
  /\ UNCHANGED scanVars
  /\ UNCHANGED uploadVars

removeKeyword(k) ==
  /\ searchMode = "document"
  /\ Includes(keywords, k)
  /\ keywords' = SelectSeq(keywords, LAMBDA x : x # k)
  /\ out' = Out("edit", <<>>)
  /\ UNCHANGED <<searchMode, names, error, direct>>
  /\ UNCHANGED scanVars
  /\ UNCHANGED uploadVars

\* As SubmitEnabled, but a submit button that is never disabled.
SubmitEnabled_Always == TRUE

\* As ValidationError, but the terms are checked without trim().
ValidationError_NoTrim ==
  IF searchMode = "terms" /\ names = <<>>
  THEN Some(S("Please enter search terms"))
  ELSE IF searchMode = "document" /\ Len(keywords) = 0
  THEN Some(S("Please upload a document to extract parties first"))
  ELSE None

\* ---- handleSubmit ----
\* The submit button carries disabled={isLoading}; a form whose submit button
\* is disabled is not submitted by the Enter key either.
SubmitEnabled == ~isLoading

\* "Validation based on mode": the message of the failed check, if any.
ValidationError ==
  IF searchMode = "terms" /\ Trim(names) = <<>>
  THEN Some(S("Please enter search terms"))
  ELSE IF searchMode = "document" /\ Len(keywords) = 0
  THEN Some(S("Please upload a document to extract parties first"))
  ELSE None

\* "Determine search terms based on mode"
SearchTerms == IF searchMode = "terms" THEN names ELSE Join(keywords, S(", "))
NamesParam ==
  IF searchMode = "terms" THEN names
  ELSE IF Len(keywords) > 0 THEN keywords[1] ELSE <<>>
VariantsParam ==
  IF searchMode = "terms" THEN <<>>
  ELSE IF Len(keywords) > 0 THEN Join(Tail(keywords), S(", ")) ELSE <<>>

\* A run of handleSubmit suspended at an await: step tells which fetch it
\* awaits, mode and searchTerms are the values its closure holds, call is the
\* request it awaits.  nSearch, nAnalyze count the requests the run has sent;
\* searchOk tells whether its search response was ok.
NewScan ==
  [step |-> "search", mode |-> searchMode, searchTerms |-> SearchTerms,
   call |-> NewCall("search-news",
              Request(TRUE, [names |-> Some(NamesParam), variants |-> Some(VariantsParam)])),
   nSearch |-> 1, nAnalyze |-> 0, searchOk |-> FALSE]

handleSubmit ==
  /\ SubmitEnabled
  /\ IF IsSome(ValidationError)
     THEN /\ error' = ValidationError
          /\ out' = Out("rejected", Get(ValidationError))
          /\ UNCHANGED scanVars
     ELSE /\ isLoading' = TRUE
          /\ error' = None
          /\ newsResults' = <<>>
          /\ analysis' = JNull
          /\ shown' = None
          /\ currentStep' = "searching"
          /\ scans' = Append(scans, NewScan)
          /\ out' = Out("request", [ep |-> "search-news", run |-> NewScan])
  /\ UNCHANGED <<direct>>
  /\ UNCHANGED formVars
  /\ UNCHANGED uploadVars

\* body.articles of a response body, undefined when the body has no such field
ArticlesOf(body) == IF "articles" \in DOMAIN body THEN Some(body.articles) ELSE None

\* As ScanCatch, but setIsLoading(false) is not in a finally block and is
\* skipped when the run throws.
ScanCatch_NoFinally(i, message) ==
  /\ error' = Some(message)
  /\ currentStep' = "idle"
  /\ scans' = RemoveAt(scans, i)
  /\ out' = Out("scanEnd", [run |-> scans[i], ok |-> FALSE])
  /\ UNCHANGED <<isLoading, newsResults, analysis, shown>>

\* catch and finally of handleSubmit for run i
ScanCatch(i, message) ==
  /\ error' = Some(message)
  /\ currentStep' = "idle"
  /\ isLoading' = FALSE
  /\ scans' = RemoveAt(scans, i)
  /\ out' = Out("scanEnd", [run |-> scans[i], ok |-> FALSE])
  /\ UNCHANGED <<newsResults, analysis, shown>>

\* As SearchResumes, but setCurrentStep("analyzing") is left out.
SearchResumes_NoStep(i, proceed) ==
  LET run == scans[i]
      newsData == run.call.resp.body
      next == [run EXCEPT
                 !.step = "analyze",
                 !.searchOk = Ok(run.call.resp),
                 !.nAnalyze = @ + 1,
                 !.call = NewCall("analyze",
                            Request(TRUE, [searchTerms |-> run.searchTerms,
                                           articles |-> ArticlesOf(newsData)]))]
  IN  IF proceed
      THEN /\ newsResults' = IF IsSome(ArticlesOf(newsData)) THEN Get(ArticlesOf(newsData)) ELSE <<>>
           /\ scans' = [scans EXCEPT ![i] = next]
           /\ out' = Out("request", [ep |-> "analyze", run |-> next])
           /\ UNCHANGED <<isLoading, analysis, shown, error, currentStep>>
      ELSE ScanCatch(i, S("Failed to fetch news results"))

\* As SearchResumes, but the newsResponse.ok check is left out.
SearchResumes_NoOkCheck(i, proceed) ==
  LET run == scans[i]
      newsData == run.call.resp.body
      next == [run EXCEPT
                 !.step = "analyze",
                 !.searchOk = Ok(run.call.resp),
                 !.nAnalyze = @ + 1,
                 !.call = NewCall("analyze",
                            Request(TRUE, [searchTerms |-> run.searchTerms,
                                           articles |-> ArticlesOf(newsData)]))]
  IN  /\ newsResults' = IF IsSome(ArticlesOf(newsData)) THEN Get(ArticlesOf(newsData)) ELSE <<>>
      /\ currentStep' = "analyzing"
      /\ scans' = [scans EXCEPT ![i] = next]
      /\ out' = Out("request", [ep |-> "analyze", run |-> next])
      /\ UNCHANGED <<isLoading, analysis, shown, error>>

\* The run resumes after `await fetch("/api/search-news")`.  proceed is the
\* outcome of the newsResponse.ok check.
SearchResumes(i, proceed) ==
  LET run == scans[i]
      newsData == run.call.resp.body
      next == [run EXCEPT
                 !.step = "analyze",
                 !.searchOk = Ok(run.call.resp),
                 !.nAnalyze = @ + 1,
                 !.call = NewCall("analyze",
                            Request(TRUE, [searchTerms |-> run.searchTerms,
                                           articles |-> ArticlesOf(newsData)]))]
  IN  IF proceed
      THEN /\ newsResults' = IF IsSome(ArticlesOf(newsData)) THEN Get(ArticlesOf(newsData)) ELSE <<>>
           /\ currentStep' = "analyzing"
           /\ scans' = [scans EXCEPT ![i] = next]
           /\ out' = Out("request", [ep |-> "analyze", run |-> next])
           /\ UNCHANGED <<isLoading, analysis, shown, error>>
      ELSE ScanCatch(i, S("Failed to fetch news results"))

SearchReturned(i) ==
  /\ scans[i].step = "search"
  /\ scans[i].call.pc = "replied"
  /\ SearchResumes(i, Ok(scans[i].call.resp))
  /\ UNCHANGED <<direct>>
  /\ UNCHANGED formVars
  /\ UNCHANGED uploadVars

\* The run resumes after `await fetch("/api/analyze")`.
AnalyzeResumes(i, proceed) ==
  LET run == scans[i]
  IN  IF proceed
      THEN /\ analysis' = run.call.resp.body
           /\ shown' = Some([mode |-> run.mode, terms |-> run.searchTerms])
           /\ currentStep' = "complete"
           /\ isLoading' = FALSE
           /\ scans' = RemoveAt(scans, i)
           /\ out' = Out("scanEnd", [run |-> run, ok |-> TRUE])
           /\ UNCHANGED <<newsResults, error>>
      ELSE ScanCatch(i, S("Failed to analyze results"))

AnalyzeReturned(i) ==
  /\ scans[i].step = "analyze"
  /\ scans[i].call.pc = "replied"
  /\ AnalyzeResumes(i, Ok(scans[i].call.resp))
  /\ UNCHANGED <<direct>>
  /\ UNCHANGED formVars
  /\ UNCHANGED uploadVars

\* fetch rejects (the request never reaches the server): the TypeError is
\* caught with its message.
ScanFetchFailed(i) ==
  /\ scans[i].call.pc = "sent"
  /\ ScanCatch(i, S("Failed to fetch"))
  /\ UNCHANGED <<direct>>
  /\ UNCHANGED formVars
  /\ UNCHANGED uploadVars

\* The route handler of the request run i awaits: it reads its API key from
\* the environment of the deployment, which may or may not hold one.
ScanServerRecv(i) ==
  /\ scans[i].call.pc = "sent"
  /\ \E hasKey \in BOOLEAN :
       scans' = [scans EXCEPT ![i].call = CallRecv(@, hasKey)]
  /\ out' = Out("handler", <<>>)
  /\ UNCHANGED <<isLoading, newsResults, analysis, currentStep, shown, error, direct>>
  /\ UNCHANGED formVars
  /\ UNCHANGED uploadVars

ScanServerReply(i) ==
  /\ scans[i].call.pc = "upstream"
  /\ \E reply \in Replies(scans[i].call.ep) :
       scans' = [scans EXCEPT ![i].call = CallReply(@, reply)]
  /\ out' = Out("handler", <<>>)
  /\ UNCHANGED <<isLoading, newsResults, analysis, currentStep, shown, error, direct>>
  /\ UNCHANGED formVars
  /\ UNCHANGED uploadVars

\* ---- handleFileUpload ----
\* The file input carries disabled={isExtracting} and is rendered in document
\* mode only.
UploadEnabled == searchMode = "document" /\ ~isExtracting

NewUpload(file) ==
  [file |-> file,
   call |-> NewCall("extract-parties", Request(TRUE, [file |-> Some(file)])),
   nReq |-> 1]

\* chosen is None when the file dialog was closed without a file.
handleFileUpload(chosen) ==
  /\ UploadEnabled
  /\ IF ~IsSome(chosen)
     THEN /\ out' = Out("edit", <<>>)
          /\ UNCHANGED <<error>>
          /\ UNCHANGED uploadVars
     ELSE /\ isExtracting' = TRUE
          /\ error' = None
          /\ uploadedFileName' = Some(Get(chosen).name)
          /\ uploads' = Append(uploads, NewUpload(Get(chosen)))
          /\ out' = Out("request", [ep |-> "extract-parties", run |-> NewUpload(Get(chosen))])
  /\ UNCHANGED <<direct>>
  /\ UNCHANGED formVars
  /\ UNCHANGED scanVars

\* As UploadFinally, but setIsExtracting(false) is forgotten.
UploadFinally_KeepFlag(j) ==
  /\ uploads' = RemoveAt(uploads, j)
  /\ UNCHANGED <<isExtracting, uploadedFileName>>

\* finally of handleFileUpload for run j
UploadFinally(j) ==
  /\ isExtracting' = FALSE
  /\ uploads' = RemoveAt(uploads, j)
  /\ UNCHANGED <<uploadedFileName>>

\* setKeywords((prev) => [...prev, ...data.terms.filter((k) => !prev.includes(k))])
MergeKeywords(prev, terms) == prev \o SelectSeq(terms, LAMBDA k : ~Includes(prev, k))

UploadReturned(j) ==
  /\ uploads[j].call.pc = "replied"
  /\ LET resp == uploads[j].call.resp
     IN  IF Ok(resp)
         THEN /\ keywords' = MergeKeywords(keywords, resp.body.terms)
              /\ UNCHANGED error
         ELSE /\ error' = Some(IF resp.body.error # <<>> THEN resp.body.error
                               ELSE S("Failed to extract parties"))
              /\ UNCHANGED keywords
  /\ UploadFinally(j)
  /\ out' = Out("uploadEnd", [run |-> uploads[j]])
  /\ UNCHANGED <<searchMode, names, direct>>
  /\ UNCHANGED scanVars

\* As UploadFetchFailed, but with no try around the fetch: the rejection
\* ends the run before setIsExtracting(false).
UploadFetchFailed_Uncaught(j) ==
  /\ uploads[j].call.pc = "sent"
  /\ uploads' = RemoveAt(uploads, j)
  /\ out' = Out("uploadEnd", [run |-> uploads[j]])
  /\ UNCHANGED <<isExtracting, uploadedFileName, error, direct>>
  /\ UNCHANGED formVars
  /\ UNCHANGED scanVars

UploadFetchFailed(j) ==
  /\ uploads[j].call.pc = "sent"
  /\ error' = Some(S("Failed to fetch"))
  /\ UploadFinally(j)
  /\ out' = Out("uploadEnd", [run |-> uploads[j]])
  /\ UNCHANGED <<direct>>
  /\ UNCHANGED formVars
  /\ UNCHANGED scanVars

UploadServerRecv(j) ==
  /\ uploads[j].call.pc = "sent"
  /\ uploads' = [uploads EXCEPT ![j].call = CallRecv(@, TRUE)]
  /\ out' = Out("handler", <<>>)
  /\ UNCHANGED <<isExtracting, uploadedFileName, error, direct>>
  /\ UNCHANGED formVars
  /\ UNCHANGED scanVars

UploadServerReply(j) ==
  /\ uploads[j].call.pc = "upstream"
  /\ \E reply \in Replies(uploads[j].call.ep) :
       uploads' = [uploads EXCEPT ![j].call = CallReply(@, reply)]
  /\ out' = Out("handler", <<>>)
  /\ UNCHANGED <<isExtracting, uploadedFileName, error, direct>>
  /\ UNCHANGED formVars
  /\ UNCHANGED scanVars

\* ---- results list and PDF report ----
getRiskPriority(level) ==
  CASE level = "CRITICAL" -> 0
    [] level = "HIGH" -> 1
    [] level = "MEDIUM" -> 2
    [] level = "LOW" -> 3
    [] OTHER -> 4

\* [...conflicts].sort((a, b) => getRiskPriority(a.severity) - getRiskPriority(b.severity)):
\* Array.prototype.sort is stable, so this is an insertion of each element
\* behind the elements that do not come after it.
RECURSIVE InsertByPriority(_, _)
InsertByPriority(sorted, c) ==
  IF sorted = <<>> THEN <<c>>
  ELSE IF getRiskPriority(Head(sorted).severity) - getRiskPriority(c.severity) <= 0
       THEN <<Head(sorted)>> \o InsertByPriority(Tail(sorted), c)
       ELSE <<c>> \o sorted

RECURSIVE SortBySeverity(_)
SortBySeverity(cs) ==
  IF cs = <<>> THEN <<>>
  ELSE InsertByPriority(SortBySeverity(SubSeq(cs, 1, Len(cs) - 1)), cs[Len(cs)])

\* Property access on the analysis value: undefined when it has no such field.
ConflictsOf(a) == IF a.kind = "obj" THEN a.conflicts ELSE None
RecommendationsOf(a) == IF a.kind = "obj" THEN a.recommendations ELSE None
RiskLevelOf(a) == IF a.kind = "obj" THEN Some(a.riskLevel) ELSE None
SummaryOf(a) == IF a.kind = "obj" THEN Some(a.summary) ELSE None

\* The list the page renders under "Identified Conflicts".
sortedConflicts ==
  IF IsSome(ConflictsOf(analysis)) THEN SortBySeverity(Get(ConflictsOf(analysis))) ELSE <<>>

\* As ReportConflicts, but the report lists the conflicts as they came.
ReportConflicts_Unsorted ==
  IF IsSome(ConflictsOf(analysis)) THEN Get(ConflictsOf(analysis)) ELSE <<>>

\* Section 3 of the report.
ReportConflicts ==
  IF IsSome(ConflictsOf(analysis)) /\ Len(Get(ConflictsOf(analysis))) > 0
  THEN SortBySeverity(Get(ConflictsOf(analysis)))
  ELSE <<>>

\* Section 1 of the report: search mode and terms.
ReportMode == IF searchMode = "terms" THEN "Manual Terms" ELSE "Document Upload"
ReportTerms ==
  LET searchTermsText == IF searchMode = "terms" THEN names ELSE Join(keywords, S(", "))
  IN  IF searchTermsText # <<>> THEN searchTermsText ELSE S("N/A")

\* Section 4 of the report: the count and the first TopNews articles.
ReportNews == SliceTo(newsResults, TopNews)

\* Section 5 of the report.
ReportRecommendations ==
  IF IsSome(RecommendationsOf(analysis)) THEN Get(RecommendationsOf(analysis)) ELSE <<>>

Report ==
  [mode |-> ReportMode, terms |-> ReportTerms, uploaded |-> uploadedFileName,
   riskLevel |-> RiskLevelOf(analysis), summary |-> SummaryOf(analysis),
   conflicts |-> ReportConflicts,
   newsCount |-> Len(newsResults), news |-> ReportNews,
   recommendations |-> ReportRecommendations]

\* generatePDFReport reads the values of the render it was created in, so the
\* await of the jspdf import does not change what it lays out.  out is the
\* saved document, None when the function returned at its first line.
generatePDFReport ==
  /\ out' = Out("pdf", IF analysis = JNull THEN None ELSE Some(Report))
  /\ UNCHANGED <<error, direct>>
  /\ UNCHANGED formVars
  /\ UNCHANGED scanVars
  /\ UNCHANGED uploadVars

\* ------------------------------------------------------------------------
\* The page and its endpoints
\* ------------------------------------------------------------------------
Next ==
  \/ \E m \in {"terms", "document"} : setSearchMode(m)
  \/ \E v \in NameInputs : SetNames(v)
  \/ \E k \in KeywordInputs : addKeyword(k)
  \/ \E i \in 1..Len(keywords) : removeKeyword(keywords[i])
  \/ handleSubmit
  \/ \E i \in 1..Len(scans) : SearchReturned(i)
  \/ \E i \in 1..Len(scans) : AnalyzeReturned(i)
  \/ \E i \in 1..Len(scans) : ScanFetchFailed(i)
  \/ \E i \in 1..Len(scans) : ScanServerRecv(i)
  \/ \E i \in 1..Len(scans) : ScanServerReply(i)
  \/ \E f \in {None} \cup {Some(x) : x \in Files} : handleFileUpload(f)
  \/ \E j \in 1..Len(uploads) : UploadReturned(j)
  \/ \E j \in 1..Len(uploads) : UploadFetchFailed(j)
  \/ \E j \in 1..Len(uploads) : UploadServerRecv(j)
  \/ \E j \in 1..Len(uploads) : UploadServerReply(j)
  \/ generatePDFReport

Spec == Init /\ [][Next]_vars

\* ------------------------------------------------------------------------
\* The endpoints called by any client
\* ------------------------------------------------------------------------
OptStrings == {None, Some(<<>>), Some(S("A")), Some(S("B"))}

Requests(ep) ==
  CASE ep = "search-news" ->
         {Request(FALSE, <<>>)} \cup
         {Request(TRUE, [names |-> n, variants |-> v]) : n \in OptStrings, v \in OptStrings}
    [] ep \in {"analyze", "analyze-alt"} ->
         {Request(FALSE, <<>>)} \cup
         {Request(TRUE, [searchTerms |-> S("A"), articles |-> a]) :
            a \in {None, Some(ArticleList(0)), Some(ArticleList(1)), Some(ArticleList(MaxArticles))}}
    [] ep = "extract-parties" ->
         {Request(FALSE, <<>>), Request(TRUE, [file |-> None])} \cup
         {Request(TRUE, [file |-> Some(f)]) : f \in Files}
    [] ep = "extract-keywords" ->
         {Request(FALSE, <<>>), Request(TRUE, [file |-> None])} \cup
         {Request(TRUE, [file |-> Some([name |-> S("contract.docx"), text |-> x])]) :
            x \in {"ok", "short", "throws"}}

\* A client sends a request to an endpoint of a deployment whose environment
\* holds the endpoint's API key or not.
DirectInvoke(ep, req, hasKey) ==
  /\ direct = None
  /\ direct' = Some([call |-> NewCall(ep, req), hasKey |-> hasKey, reply |-> None])
  /\ out' = Out("apiRequest", <<>>)
  /\ UNCHANGED <<error>>
  /\ UNCHANGED formVars
  /\ UNCHANGED scanVars
  /\ UNCHANGED uploadVars

DirectServerRecv ==
  /\ direct # None
  /\ Get(direct).call.pc = "sent"
  /\ direct' = Some([Get(direct) EXCEPT !.call = CallRecv(@, Get(direct).hasKey)])
  /\ out' = Out("handler", <<>>)
  /\ UNCHANGED <<error>>
  /\ UNCHANGED formVars
  /\ UNCHANGED scanVars
  /\ UNCHANGED uploadVars

DirectServerReply ==
  /\ direct # None
  /\ Get(direct).call.pc = "upstream"
  /\ \E reply \in Replies(Get(direct).call.ep) :
       direct' = Some([Get(direct) EXCEPT !.call = CallReply(@, reply),
                                          !.reply = Some(reply)])
  /\ out' = Out("handler", <<>>)
  /\ UNCHANGED <<error>>
  /\ UNCHANGED formVars
  /\ UNCHANGED scanVars
  /\ UNCHANGED uploadVars

\* The client receives the response.
DirectReturned ==
  /\ direct # None
  /\ Get(direct).call.pc = "replied"
  /\ direct' = None
  /\ out' = Out("apiResponse", Get(direct))
  /\ UNCHANGED <<error>>
  /\ UNCHANGED formVars
  /\ UNCHANGED scanVars
  /\ UNCHANGED uploadVars

NextApi ==
  \/ \E ep \in Endpoints : \E req \in Requests(ep) : \E hasKey \in BOOLEAN :
       DirectInvoke(ep, req, hasKey)
  \/ DirectServerRecv
  \/ DirectServerReply
  \/ DirectReturned

SpecApi == Init /\ [][NextApi]_vars

\* The page with its endpoints, and the endpoints called by another client.
\* The route handlers keep no state between requests, so a call by another
\* client shares nothing with the page's runs: the two are explored one at a
\* time, a client call while the page is as loaded and the page while no
\* client call is under way.
PageAsLoaded ==
  /\ searchMode = "terms" /\ names = <<>> /\ keywords = <<>>
  /\ ~isLoading /\ ~isExtracting /\ newsResults = <<>> /\ analysis = JNull
  /\ error = None /\ uploadedFileName = None /\ currentStep = "idle"
  /\ scans = <<>> /\ uploads = <<>> /\ shown = None

NextAll ==
  \/ direct = None /\ Next
  \/ PageAsLoaded /\ NextApi

SpecAll == Init /\ [][NextAll]_vars

\* ------------------------------------------------------------------------
\* Properties
\* ------------------------------------------------------------------------
AllRuns == {scans[i] : i \in 1..Len(scans)}
AllUploads == {uploads[j] : j \in 1..Len(uploads)}

\* C1 (state part): a run has sent its /api/analyze request only if its
\* /api/search-news response was ok, and a run that ended at the search
\* request has sent no /api/analyze request; a run that ends well ends on an
\* ok response of /api/analyze.
C1_RequestsInOrder ==
  /\ \A r \in AllRuns : /\ r.nAnalyze > 0 => r.searchOk
                        /\ r.step = "analyze" <=> r.nAnalyze > 0
  /\ (out.kind = "request" /\ out.data.ep = "analyze") => out.data.run.searchOk
  /\ out.kind = "scanEnd" =>
       /\ out.data.run.nAnalyze > 0 => out.data.run.searchOk
       /\ ~out.data.run.searchOk => out.data.run.nAnalyze = 0
       /\ out.data.ok => /\ out.data.run.step = "analyze"
                         /\ out.data.run.call.pc = "replied"
                         /\ Ok(out.data.run.call.resp)

\* C1 (step part): analysis is set only by the step in which a run receives
\* an ok response of /api/analyze, and to the body of that response.
C1_AnalysisSetByOkResponse ==
  (analysis' # analysis /\ analysis' # JNull) =>
     /\ out'.kind = "scanEnd"
     /\ out'.data.ok
     /\ out'.data.run.call.ep = "analyze"
     /\ Ok(out'.data.run.call.resp)
     /\ analysis' = out'.data.run.call.resp.body

\* C1: a scan runs its steps in order: the /api/analyze request is issued
\* only after the /api/search-news request of the same submit returned ok,
\* analysis is set only after /api/analyze returned ok, and a failed search
\* is followed by no /api/analyze request.
C1_StepsInOrder == []C1_RequestsInOrder /\ [][C1_AnalysisSetByOkResponse]_vars

\* A scan that went through both requests and set analysis.
C1_Witness ==
  /\ out.kind = "scanEnd" /\ out.data.ok
  /\ out.data.run.nSearch = 1 /\ out.data.run.nAnalyze = 1
  /\ analysis = Doc1

\* The content is a well-formed JSON document between a leading fence (with
\* or without the word json) and a trailing fence.
FencedJson(content) ==
  /\ Len(content) >= 3
  /\ content[1] = Fence /\ content[Len(content)] = Fence
  /\ IsSome(JSONParse(SubSeq(content, IF content[2] = "json" THEN 3 ELSE 2, Len(content) - 1)))

Unfenced(content) ==
  SubSeq(content, IF content[2] = "json" THEN 3 ELSE 2, Len(content) - 1)

\* The reply of the model API carries this content.
RepliedContent(d, content) ==
  /\ IsSome(d.reply)
  /\ Get(d.reply).net = "ok" /\ Get(d.reply).status = 200 /\ Get(d.reply).json
  /\ Get(d.reply).data.choices
  /\ Get(d.reply).data.content = Some(content)

\* C2: POST /api/analyze tolerates code fences: when the content of the
\* model reply is a well-formed JSON document wrapped in fences, the endpoint
\* answers 200 with the parsed document, as it does for the bare document.
C2_FenceTolerated ==
  (out.kind = "apiResponse" /\ out.data.call.ep = "analyze") =>
     \A c \in Contents :
        (FencedJson(c) /\ RepliedContent(out.data, c)) =>
           /\ out.data.call.resp.status = 200
           /\ out.data.call.resp.body = Get(JSONParse(Unfenced(c)))

\* What holds of the route that cleans the content before parsing it.
C2_AltFenceTolerated ==
  (out.kind = "apiResponse" /\ out.data.call.ep = "analyze-alt") =>
     \A c \in Contents :
        (FencedJson(c) /\ RepliedContent(out.data, c)) =>
           /\ out.data.call.resp.status = 200
           /\ out.data.call.resp.body = Get(JSONParse(Unfenced(c)))

AllCalls ==
  {r.call : r \in AllRuns} \cup {u.call : u \in AllUploads}
  \cup (IF direct = None THEN {} ELSE {Get(direct).call})

\* C3: no retry: a handler sends at most one upstream request per incoming
\* request, a submit sends at most one /api/search-news and one /api/analyze
\* request, an upload one /api/extract-parties request; a failed upstream
\* reply becomes an error response, a failed request an error of the run.
C3_NoRetry ==
  /\ \A c \in AllCalls : /\ c.nUp <= 1
                         /\ (c.pc = "replied" /\ c.upFail) => ~Ok(c.resp)
  /\ \A r \in AllRuns : r.nSearch <= 1 /\ r.nAnalyze <= 1
  /\ \A u \in AllUploads : u.nReq <= 1
  /\ (out.kind = "scanEnd" /\ ~out.data.ok) =>
        /\ out.data.run.nSearch <= 1 /\ out.data.run.nAnalyze <= 1
        /\ out.data.run.call.nUp <= 1
        /\ IsSome(error) /\ scans = <<>>
  /\ out.kind = "apiResponse" =>
        /\ out.data.call.nUp <= 1
        /\ out.data.call.upFail => ~Ok(out.data.call.resp)

\* The keyword endpoint answered an error after its one upstream attempt failed.
C3_Witness ==
  /\ direct # None
  /\ Get(direct).call.ep = "extract-keywords"
  /\ Get(direct).call.pc = "replied"
  /\ Get(direct).call.upFail /\ Get(direct).call.nUp = 1
  /\ Get(direct).call.resp.status = 500

\* C4 as stated: a party extraction and a scan are never in flight together.
C4_NeverTogether == ~(Len(uploads) > 0 /\ Len(scans) > 0)

\* C4 amended: an extraction is in flight exactly while isExtracting is true
\* and a scan exactly while isLoading is true; the two flags are independent,
\* so the two can be in flight together, and then both flags are true.
C4_EachUnderItsFlag ==
  /\ isExtracting <=> Len(uploads) > 0
  /\ isLoading <=> Len(scans) > 0

C4_Witness == Len(uploads) > 0 /\ Len(scans) > 0 /\ isExtracting /\ isLoading

\* C5: at most one scan and at most one party extraction are in flight; a
\* run that has just started is the only one of its kind.
C5_OneAtATime ==
  /\ Len(scans) <= 1
  /\ Len(uploads) <= 1
  /\ (out.kind = "request" /\ out.data.ep = "search-news") => scans = <<out.data.run>>
  /\ (out.kind = "request" /\ out.data.ep = "extract-parties") => uploads = <<out.data.run>>

\* A scan awaits /api/analyze while the button is disabled.
C5_Witness == Len(scans) = 1 /\ isLoading /\ scans[1].step = "analyze"

\* CRITICAL, HIGH, MEDIUM, LOW, other
SeverityRank(sev) ==
  IF sev = "CRITICAL" THEN 1 ELSE IF sev = "HIGH" THEN 2 ELSE IF sev = "MEDIUM" THEN 3
  ELSE IF sev = "LOW" THEN 4 ELSE 5

InSeverityOrder(cs) ==
  \A i \in 1..Len(cs) : \A j \in 1..Len(cs) :
     i < j => SeverityRank(cs[i].severity) <= SeverityRank(cs[j].severity)

\* What the report shares with the page, but for the news list.
ReportOfAnalysis(r) ==
  /\ r.riskLevel = RiskLevelOf(analysis)
  /\ r.summary = SummaryOf(analysis)
  /\ r.recommendations = (IF IsSome(RecommendationsOf(analysis))
                          THEN Get(RecommendationsOf(analysis)) ELSE <<>>)
  /\ r.conflicts = sortedConflicts
  /\ InSeverityOrder(r.conflicts)
  /\ IsSome(ConflictsOf(analysis)) => Len(r.conflicts) = Len(Get(ConflictsOf(analysis)))

\* C6 as stated: nothing for a null analysis; otherwise risk level, summary,
\* recommendations and the news list are those of analysis and newsResults,
\* and the conflicts are in the order of the page.
C6_ReportSameData ==
  out.kind = "pdf" =>
     IF analysis = JNull THEN out.data = None
     ELSE /\ IsSome(out.data)
          /\ ReportOfAnalysis(Get(out.data))
          /\ Get(out.data).news = newsResults

\* C6 amended: as stated, but the news list of the report is the first 10
\* articles of newsResults, with the number of all of them.
C6_ReportFirstTenNews ==
  out.kind = "pdf" =>
     IF analysis = JNull THEN out.data = None
     ELSE /\ IsSome(out.data)
          /\ ReportOfAnalysis(Get(out.data))
          /\ Get(out.data).newsCount = Len(newsResults)
          /\ Len(Get(out.data).news) = (IF Len(newsResults) > 10 THEN 10 ELSE Len(newsResults))
          /\ \A i \in 1..Len(Get(out.data).news) : Get(out.data).news[i] = newsResults[i]

\* A report of an analysis with conflicts out of order and more than 10 articles.
C6_Witness ==
  /\ out.kind = "pdf" /\ IsSome(out.data)
  /\ analysis = Doc1 /\ Len(newsResults) > 10
  /\ ~InSeverityOrder(Get(ConflictsOf(analysis)))

\* C7: section 1 of the report prints the mode and the terms submitted by
\* the scan that produced the analysis of the report.
C7_ReportTermsOfScan ==
  (out.kind = "pdf" /\ IsSome(out.data) /\ IsSome(shown)) =>
     /\ Get(out.data).mode = (IF Get(shown).mode = "terms" THEN "Manual Terms" ELSE "Document Upload")
     /\ Get(out.data).terms = (IF Get(shown).terms # <<>> THEN Get(shown).terms ELSE S("N/A"))

AllSpaces(s) == \A i \in 1..Len(s) : s[i] \in {" ", "\n"}

NoUsableInput ==
  \/ searchMode = "terms" /\ AllSpaces(names)
  \/ searchMode = "document" /\ keywords = <<>>

\* A step of handleSubmit: it rejects, or it sends the search request.
SubmitStep ==
  \/ out'.kind = "rejected"
  \/ out'.kind = "request" /\ out'.data.ep = "search-news"

\* C8 (step): handleSubmit on no usable input sets the mode's message, sends
\* nothing and leaves isLoading, currentStep, newsResults and analysis alone.
C8_Rejects ==
  (SubmitStep /\ NoUsableInput) =>
     /\ out'.kind = "rejected"
     /\ error' = Some(S(IF searchMode = "terms" THEN "Please enter search terms"
                        ELSE "Please upload a document to extract parties first"))
     /\ UNCHANGED <<isLoading, currentStep, newsResults, analysis, scans, uploads>>

\* C8: a submit with no usable input is rejected before any network call.
C8_RejectedBeforeAnyCall == [][C8_Rejects]_vars

\* Whitespace-only terms were rejected.
C8_Witness ==
  /\ out.kind = "rejected" /\ searchMode = "terms" /\ names = S(" ")
  /\ error = Some(S("Please enter search terms")) /\ scans = <<>>

StepMoves ==
  {<<"idle", "searching">>, <<"complete", "searching">>, <<"searching", "analyzing">>,
   <<"analyzing", "complete">>, <<"searching", "idle">>, <<"analyzing", "idle">>}

\* C9: currentStep moves only idle/complete -> searching -> analyzing ->
\* complete, and searching -> idle, analyzing -> idle on failure.
C9_StepOrder == [][currentStep' # currentStep => <<currentStep, currentStep'>> \in StepMoves]_vars

\* A scan went through searching and analyzing and ended at complete.
C9_Witness ==
  /\ currentStep = "complete" /\ out.kind = "scanEnd" /\ out.data.ok

\* C10: isLoading is true exactly when currentStep is searching or analyzing.
C10_LoadingIffStep == isLoading <=> currentStep \in {"searching", "analyzing"}

\* A failed scan is back at idle with the button enabled.
C10_Witness ==
  /\ out.kind = "scanEnd" /\ ~out.data.ok /\ out.data.run.step = "analyze"
  /\ ~isLoading /\ currentStep = "idle"

\* ------------------------------------------------------------------------
\* Termination of the runs
\* ------------------------------------------------------------------------
\* A step of a suspended run of handleSubmit or of the request it awaits.
ScanProgress ==
  \E i \in 1..Len(scans) :
     \/ ScanServerRecv(i) \/ ScanServerReply(i) \/ ScanFetchFailed(i)
     \/ SearchReturned(i) \/ AnalyzeReturned(i)

\* A step of a suspended run of handleFileUpload or of the request it awaits.
UploadProgress ==
  \E j \in 1..Len(uploads) :
     \/ UploadServerRecv(j) \/ UploadServerReply(j) \/ UploadFetchFailed(j)
     \/ UploadReturned(j)

\* Every fetch eventually resolves or rejects, and a resolved promise resumes
\* the function that awaits it.
\* The page as far as its runs are concerned: the user picks a mode, types
\* the terms, uploads documents and submits; the parties come from the
\* uploads.
LiveNames == {<<>>, S("A")}

NextLive ==
  \/ \E m \in {"terms", "document"} : setSearchMode(m)
  \/ \E v \in LiveNames : SetNames(v)
  \/ handleSubmit
  \/ ScanProgress
  \/ \E f \in {None} \cup {Some(x) : x \in Files} : handleFileUpload(f)
  \/ UploadProgress

SpecLive == Init /\ [][NextLive]_vars /\ WF_vars(ScanProgress) /\ WF_vars(UploadProgress)

\* C11: every submit that passed validation eventually ends with isLoading
\* false and currentStep idle or complete, and every upload eventually ends
\* with isExtracting false, whatever the outcome of the requests.
C11_RunsEnd ==
  /\ isLoading ~> (~isLoading /\ currentStep \in {"idle", "complete"} /\ scans = <<>>)
  /\ isExtracting ~> (~isExtracting /\ uploads = <<>>)

\* An upload whose fetch threw has ended, after a scan that ended well.
C11_Witness ==
  /\ out.kind = "uploadEnd" /\ out.data.run.call.pc = "sent"
  /\ ~isExtracting /\ uploads = <<>>
  /\ ~isLoading /\ scans = <<>> /\ currentStep = "complete"

\* The response of the most recent scan is the analysis, and a failed scan
\* leaves none.
C12_AnalysisOfLastScan ==
  /\ (out.kind = "scanEnd" /\ out.data.ok) =>
        /\ currentStep = "complete"
        /\ analysis = out.data.run.call.resp.body
  /\ (out.kind = "scanEnd" /\ ~out.data.ok) =>
        /\ analysis = JNull /\ IsSome(error) /\ currentStep = "idle"

\* C12: whenever currentStep is complete, analysis is non-null and is the
\* response of the most recent scan; a scan that fails ends with analysis
\* null, error non-null and currentStep idle.
C12_CompleteHasAnalysis ==
  /\ currentStep = "complete" => analysis # JNull
  /\ C12_AnalysisOfLastScan

\* A request to an analyze route whose body has no articles field or an
\* empty list.
NoArticlesRequest(c) ==
  /\ c.ep \in {"analyze", "analyze-alt"}
  /\ c.req.parsed
  /\ (~IsSome(c.req.body.articles) \/ Len(Get(c.req.body.articles)) = 0)

\* The call was answered with the fixed result and sent nothing upstream.
FixedResultOnly(c) ==
  /\ c.pc = "replied"
  /\ c.nUp = 0 /\ c.upReq = None
  /\ c.resp.status = 200
  /\ c.resp.body.riskLevel = "LOW"
  /\ c.resp.body.conflicts = Some(<<>>)
  /\ IsSome(c.resp.body.recommendations)
  /\ Len(Get(c.resp.body.recommendations)) = 3
  /\ c.resp.body = NoArticlesResult

\* C13: the analyze endpoint answers a request without articles with 200 and
\* the fixed LOW result with no conflicts and three recommendations, without
\* calling the model API, with or without an API key.
C13_NoArticlesFixedResult ==
  /\ (direct # None /\ NoArticlesRequest(Get(direct).call) /\ Get(direct).call.pc # "sent")
        => FixedResultOnly(Get(direct).call)
  /\ (out.kind = "apiResponse" /\ NoArticlesRequest(out.data.call))
        => FixedResultOnly(out.data.call) /\ out.data.reply = None

\* A client without articles got the fixed result from a deployment that has
\* no API key.
C13_Witness ==
  /\ out.kind = "apiResponse"
  /\ out.data.call.ep = "analyze"
  /\ out.data.call.req.parsed /\ out.data.call.req.body.articles = None
  /\ ~out.data.hasKey
  /\ out.data.call.resp.status = 200

\* The run got an ok search response without articles and went on to
\* /api/analyze.
EmptySearch(run) ==
  /\ run.step = "analyze" /\ run.searchOk
  /\ run.call.req.body.articles \in {None, Some(<<>>)}

LowNoConflicts(a) ==
  /\ a.kind = "obj" /\ a.riskLevel = "LOW" /\ a.conflicts = Some(<<>>)

\* C14 as stated: a scan whose search returned ok without articles ends with
\* currentStep complete, no newsResults and a LOW analysis without conflicts,
\* and the model API is not called for it.
C14_EmptySearchCompletes ==
  (out.kind = "scanEnd" /\ EmptySearch(out.data.run)) =>
     /\ out.data.ok /\ currentStep = "complete"
     /\ newsResults = <<>>
     /\ LowNoConflicts(analysis)
     /\ out.data.run.call.nUp = 0

\* C14 amended: for such a scan the model API is never called and newsResults
\* is empty; when /api/analyze answers, it answers 200 with the fixed result
\* and the scan ends complete with that analysis; when the fetch of
\* /api/analyze rejects, the scan ends idle with the error of the rejection.
C14_EmptySearchCompletesIfAnswered ==
  /\ \A r \in AllRuns :
        EmptySearch(r) =>
           /\ r.call.nUp = 0 /\ r.call.pc \in {"sent", "replied"}
           /\ newsResults = <<>> /\ currentStep = "analyzing"
           /\ r.call.pc = "replied" =>
                 r.call.resp = [status |-> 200, body |-> NoArticlesResult]
  /\ (out.kind = "scanEnd" /\ EmptySearch(out.data.run)) =>
        /\ out.data.run.call.nUp = 0
        /\ newsResults = <<>>
        /\ IF out.data.run.call.pc = "replied"
           THEN /\ out.data.ok /\ currentStep = "complete"
                /\ analysis = NoArticlesResult /\ LowNoConflicts(analysis)
           ELSE /\ ~out.data.ok /\ currentStep = "idle"
                /\ analysis = JNull /\ error = Some(S("Failed to fetch"))

\* A scan without articles ended complete with the fixed result.
C14_Witness ==
  /\ out.kind = "scanEnd" /\ EmptySearch(out.data.run) /\ out.data.ok
  /\ currentStep = "complete" /\ analysis = NoArticlesResult /\ newsResults = <<>>

AnalyzeRoutes == {"analyze", "analyze-alt"}

HasArticles(c) ==
  c.req.parsed /\ IsSome(c.req.body.articles) /\ Len(Get(c.req.body.articles)) > 0

ErrorOf(resp) == IF "error" \in DOMAIN resp.body THEN Some(resp.body.error) ELSE None

\* The upstream reply arrived and is ok, but carries no content.
NoContent(reply) ==
  /\ reply.net = "ok" /\ UpOk(reply) /\ reply.json
  /\ (~reply.data.choices \/ ~Truthy(reply.data.content))

\* What every response of the analyze endpoint satisfies: one response per
\* request, 200 or 500 with an error field, and 500 without an upstream call
\* when the articles are there and the key is not.
AnalyzeAnswersOnce(d) ==
  /\ d.call.pc = "replied" /\ d.call.nUp <= 1
  /\ d.call.resp.status \in {200, 500}
  /\ d.call.resp.status # 200 => (IsSome(ErrorOf(d.call.resp)) /\ Get(ErrorOf(d.call.resp)) # <<>>)
  /\ (HasArticles(d.call) /\ ~d.hasKey) =>
        /\ d.call.resp.status = 500 /\ IsSome(ErrorOf(d.call.resp))
        /\ d.call.nUp = 0 /\ d.reply = None

AnalyzeFailedOn(d) ==
  /\ d.call.resp.status = 500
  /\ ErrorOf(d.call.resp) = Some(S("Failed to analyze results"))

BadContent(d) ==
  /\ IsSome(d.reply)
  /\ Get(d.reply).net = "ok" /\ UpOk(Get(d.reply)) /\ Get(d.reply).json
  /\ Get(d.reply).data.choices /\ Truthy(Get(d.reply).data.content)
  /\ ~IsSome(JSONParse(Get(Get(d.reply).data.content)))

\* One of the three JSON readings of the handler threw: request.json(),
\* response.json() or JSON.parse(content).
SyntaxErrorThrown(d) ==
  \/ ~d.call.req.parsed
  \/ IsSome(d.reply) /\ Get(d.reply).net = "ok" /\ ~Get(d.reply).json
  \/ BadContent(d)

ParseErrorAnswered(d) == ErrorOf(d.call.resp) = Some(S("Failed to parse AI analysis response"))

\* C16: the analyze endpoint answers "Failed to parse AI analysis response"
\* exactly when the content returned by the model is not well-formed JSON;
\* every other failure has another message.
C16_ParseErrorIffBadContent ==
  (out.kind = "apiResponse" /\ out.data.call.ep = "analyze") =>
     (ParseErrorAnswered(out.data) <=> BadContent(out.data))

\* What the handler does: the message stands for any SyntaxError caught.
C16_ParseErrorIffSyntaxError ==
  (out.kind = "apiResponse" /\ out.data.call.ep = "analyze") =>
     (ParseErrorAnswered(out.data) <=> SyntaxErrorThrown(out.data))

\* The field of a request body is missing or the empty string.
EmptyOrMissing(o) == o = None \/ o = Some(<<>>)

\* The query the claim gives for a body with at least one of the two fields.
QueryOf(b) ==
  IF EmptyOrMissing(b.variants) THEN Get(b.names)
  ELSE IF EmptyOrMissing(b.names) THEN Get(b.variants)
  ELSE Get(b.names) \o <<" OR ">> \o Get(b.variants)

SearchNewsAnswer(c, hasKey) ==
  IF EmptyOrMissing(c.req.body.names) /\ EmptyOrMissing(c.req.body.variants)
  THEN /\ c.pc = "replied" /\ c.nUp = 0 /\ c.upReq = None
       /\ c.resp = [status |-> 400,
                    body |-> [error |-> S("Please provide at least one search term")]]
  ELSE IF ~hasKey
  THEN /\ c.pc = "replied" /\ c.nUp = 0 /\ c.upReq = None
       /\ c.resp.status = 500
  ELSE /\ c.nUp = 1
       /\ c.upReq = Some([q |-> QueryOf(c.req.body)])

\* C17: the search-news endpoint queries the provider for names, for
\* variants, or for names OR variants, whichever of the two are non-empty;
\* with neither it answers 400 "Please provide at least one search term"
\* without calling the provider, whether or not NEWS_API_KEY is configured.
C17_SearchQuery ==
  /\ (direct # None /\ Get(direct).call.ep = "search-news"
        /\ Get(direct).call.req.parsed /\ Get(direct).call.pc # "sent")
        => SearchNewsAnswer(Get(direct).call, Get(direct).hasKey)
  /\ (out.kind = "apiResponse" /\ out.data.call.ep = "search-news"
        /\ out.data.call.req.parsed)
        => SearchNewsAnswer(out.data.call, out.data.hasKey)

\* Both fields were given and the provider is asked for "A OR B".
C17_Witness ==
  /\ direct # None /\ Get(direct).call.ep = "search-news"
  /\ Get(direct).call.pc = "upstream"
  /\ Get(direct).call.req.body.names = Some(S("A"))
  /\ Get(direct).call.req.body.variants = Some(S("B"))
  /\ Get(direct).call.upReq = Some([q |-> <<"A", " OR ", "B">>])
====
